---- MODULE Spec2Model ----
(***************************************************************************)
(* A model of rubank_api_client: the T-Bank transaction cache              *)
(* (rubank_api_client/tbank.py), the operation filters of both providers   *)
(* and the login sequences of both clients (tbank.py, sber.py).            *)
(*                                                                         *)
(* Spec       the T-Bank cache engine: the operations watcher's loop body  *)
(*            with its ingest, over every response body, run on one client *)
(*            instance.                                                    *)
(* SpecQuery  the same watcher next to the filter constructors and         *)
(*            get_operations.                                              *)
(* SpecFilter the two filter classes: construction and to_json.            *)
(* SpecTBank  TBankApiClient.__init__, wait by wait, over process          *)
(*            restarts (the two files outlive a process).                  *)
(* SpecTBankAlive  the three threads of a TBankApiClient.                   *)
(* SpecSber   SberBankApiClient.__init__, wait by wait, likewise, then its *)
(*            two threads and its queries.                                 *)
(* SpecCacheSteps  the ingest statement by statement beside a              *)
(*            get_operations call, with failing file writes.               *)
(* SpecSberThreads  the threads of a running SberBankApiClient and a       *)
(*            foreground query over the driver and its request log.        *)
(* SpecTBankThreads  the threads of a running TBankApiClient over the      *)
(*            request log.                                                 *)
(***************************************************************************)
EXTENDS Integers, Sequences, FiniteSets, TLC

(***************************************************************************)
(* Bounds of the model.                                                    *)
(***************************************************************************)
\* The longest "payload" list of one intercepted response.
MaxPayloadLen == 2
\* How many times a response body may be gzip-compressed over itself.
MaxGzipLayers == 2

(***************************************************************************)
(* JSON values of the listing response.                                    *)
(***************************************************************************)
\* op.get("id") of an entry without the key.
NoId == "<none>"
\* An "id" that is present and falsy.
EmptyId == ""
Ids == {"A", "B"}

\* One element of the "payload" list.  isdict = FALSE is a JSON scalar;
\* ts is <<>> when the entry has no debitingTime.milliseconds.
Op(id, ts) == [isdict |-> TRUE, id |-> id, ts |-> ts]
Scalar == [isdict |-> FALSE, id |-> NoId, ts |-> <<>>]
Entries ==
    {Op("A", <<100>>), Op("A", <<150>>), Op("A", <<>>), Op("B", <<200>>),
     Op(NoId, <<150>>), Op(EmptyId, <<100>>), Scalar}

SeqsUpTo(S, n) == UNION {[1..k -> S] : k \in 0..n}
Payloads == SeqsUpTo(Entries, MaxPayloadLen)

\* The decoded text of a body: a JSON object with a "payload" list, a JSON
\* object without the key, a JSON array, or bytes that are no JSON document.
Texts ==
    {[kind |-> "obj", payload |-> p] : p \in Payloads}
        \cup {[kind |-> k, payload |-> <<>>] : k \in {"nopayload", "array", "garbage"}}

\* A response body: text under gz layers of gzip.  A body with gz > 0
\* starts with the bytes 1f 8b; JSON text never does.
Bodies == [gz : 0..MaxGzipLayers, text : Texts]
Gzip(body) == [body EXCEPT !.gz = @ + 1]

(***************************************************************************)
(* Python dicts, in insertion order: a sequence of <<key, value>>.         *)
(***************************************************************************)
Keys(d) == {d[i][1] : i \in DOMAIN d}
Values(d) == [i \in DOMAIN d |-> d[i][2]]
HasKey(d, k) == \E i \in DOMAIN d : d[i][1] = k
Get(d, k) == d[CHOOSE i \in DOMAIN d : d[i][1] = k][2]
\* d[k] = v
DictSetDefault(d, k, v) == IF HasKey(d, k) THEN d ELSE Append(d, <<k, v>>)
DictSet(d, k, v) ==
    IF HasKey(d, k)
    THEN [i \in DOMAIN d |-> IF d[i][1] = k THEN <<k, v>> ELSE d[i]]
    ELSE Append(d, <<k, v>>)

(***************************************************************************)
(* The cache file ../tbank_operations.json.                                *)
(***************************************************************************)
NoFile == [exists |-> FALSE, ops |-> <<>>]
FileOf(d) == [exists |-> TRUE, ops |-> d]
\* self.all_operations before its first assignment.
Unset == [set |-> FALSE, ops |-> <<>>]
MemOf(d) == [set |-> TRUE, ops |-> d]

\* __load_cached_operations: {} when the file is missing, else its content
\* (json.dump wrote it whole, so json.loads gives the dict back).
LoadNothing(file) == <<>>
LoadCachedOperations(file) == IF file.exists THEN file.ops ELSE <<>>

\* line 247: get_operations_body.startswith(b'\x1f\x8b')
IsGzipNever(body) == FALSE
IsGzip(body) == body.gz > 0
\* gzip.decompress: one layer off.
Decompress(body) == [body EXCEPT !.gz = @ - 1]

\* line 259: if op_id
TruthyOrEmpty(id) == id # NoId
Truthy(id) == id # NoId /\ id # EmptyId

\* lines 257-260: the merge loop.  op.get on an entry that is no dict raises
\* AttributeError and ends the loop.
MergeFirstOnly(existing, ops) ==
    IF ops = <<>> \/ ~Head(ops).isdict \/ ~Truthy(Head(ops).id)
    THEN [exc |-> "none", ops |-> existing]
    ELSE [exc |-> "none", ops |-> DictSet(existing, Head(ops).id, Head(ops))]
RECURSIVE MergeLoop(_, _)
MergeLoop(existing, ops) ==
    IF ops = <<>>
    THEN [exc |-> "none", ops |-> existing]
    ELSE LET op == Head(ops)
         IN  IF ~op.isdict
             THEN [exc |-> "AttributeError", ops |-> existing]
             ELSE MergeLoop(IF Truthy(op.id) THEN DictSet(existing, op.id, op) ELSE existing,
                            Tail(ops))

\* lines 244, 265: try ... except Exception
IngestCatchesJsonOnly(exc) == exc = "JSONDecodeError"
IngestCatches(exc) == TRUE

\* __save_new_operations_to_cache_file(get_operations_body), lines 235-266:
\* the file and self.all_operations it leaves, the exception raised inside
\* its try (exc) and whether that exception leaves the method (escaped).
SaveNewOperationsToCacheFile(file, mem, body) ==
    LET existing == LoadCachedOperations(file)
        plain == IF IsGzip(body) THEN Decompress(body) ELSE body
        merged == MergeLoop(existing, plain.text.payload)
        exc == IF plain.gz > 0 THEN "UnicodeDecodeError"
               ELSE IF plain.text.kind = "garbage" THEN "JSONDecodeError"
               ELSE IF plain.text.kind = "array" THEN "AttributeError"
               ELSE merged.exc
    IN  IF exc = "none"
        THEN [file |-> FileOf(merged.ops), mem |-> MemOf(merged.ops),
              exc |-> exc, escaped |-> FALSE]
        ELSE [file |-> file, mem |-> mem, exc |-> exc, escaped |-> ~IngestCatches(exc)]

(***************************************************************************)
(* Operation filters.                                                      *)
(***************************************************************************)
\* A date argument: a string of digits (v its value), a string in the
\* format %d.%m.%YT%H:%M:%S (v the seconds since the epoch of that local
\* time), or a string that is neither.
Digits(v) == [fmt |-> "digits", v |-> v]
Date(v) == [fmt |-> "date", v |-> v]
BadDate == [fmt |-> "bad", v |-> 0]
\* date_to=None, date_from=None
NoDate == [fmt |-> "none", v |-> 0]
\* datetime.datetime.now().timestamp() * 1000 when a filter is built.
Clock == {150, 250}
\* tbank.py line 19: date_from='31.12.2005T00:00:00'
DefaultDateFrom == Date(0)
DateStrs == {Digits(120), Digits(200), DefaultDateFrom, BadDate}
MsPerSecond == 1000

\* The result_format argument: the types dict and pd.DataFrame, None, and
\* another type.
Formats == {"dict", "DataFrame", "None", "list"}
ResultFormatAsGiven(rf) == rf
\* lines 33 (tbank.py) and 30 (sber.py)
ResultFormat(rf) == IF rf \in {"dict", "DataFrame"} THEN rf ELSE "None"

\* TBankOperationsFilter._convert_date_to_timestamp, lines 40-52: the
\* milliseconds the returned string denotes.
ConvertDateToTimestamp(d) ==
    IF d.fmt = "digits" THEN [exc |-> "none", ms |-> d.v]
    ELSE IF d.fmt = "date" THEN [exc |-> "none", ms |-> d.v * MsPerSecond]
    ELSE [exc |-> "ValueError", ms |-> 0]

\* TBankOperationsFilter.__init__, lines 17-38.
TBankOperationsFilter(date_from, date_to, result_format, now) ==
    LET f == ConvertDateToTimestamp(date_from)
        t == IF date_to = NoDate THEN [exc |-> "none", ms |-> now]
             ELSE ConvertDateToTimestamp(date_to)
    IN  IF f.exc # "none" THEN [exc |-> f.exc]
        ELSE IF t.exc # "none" THEN [exc |-> t.exc]
        ELSE [exc |-> "none", date_from |-> f.ms, date_to |-> t.ms,
              result_format |-> ResultFormat(result_format)]

\* <<date_from, date_to, result_format, the clock>>; the clock is read when
\* date_to is None.
TBankFilterArgs ==
    {<<f, t, rf, now>> : f \in DateStrs, t \in DateStrs, rf \in Formats, now \in {0}}
        \cup {<<f, NoDate, rf, now>> : f \in DateStrs, rf \in Formats, now \in Clock}
\* The filter objects a caller can hold.
TBankFilters ==
    {TBankOperationsFilter(a[1], a[2], a[3], a[4]) : a \in TBankFilterArgs}
        \ {[exc |-> "ValueError"]}

\* An argument that is not a date is written as Python writes it: "None",
\* "0", "51", "True", ...
None == "None"
\* sber.py lines 22-24: the defaults of pagination_offset, pagination_size
\* and show_hidden.
DefaultPaginationOffset == "0"
DefaultPaginationSize == "51"
DefaultShowHidden == "False"
\* line 33: isinstance(show_hidden, bool)
IsBool(v) == v \in {"True", "False"}

\* SberBankOperationsFilter.__init__, lines 15-38: the dates are kept as
\* given.
SberBankOperationsFilter(operation_type, date_from, date_to, resource, result_format, pagination_offset, pagination_size, show_hidden) ==
    [exc |-> "none", type |-> operation_type, date_from |-> date_from, date_to |-> date_to,
     resource |-> resource, result_format |-> ResultFormat(result_format),
     pagination_offset |-> pagination_offset, pagination_size |-> pagination_size,
     show_hidden |-> IF IsBool(show_hidden) THEN show_hidden ELSE "False"]

\* lines 41-49: the payload dict, in the order of its keys; a value is None
\* when it is the None of a date or of another argument.
SberPayload(filter) ==
    << <<"filterName", filter.type, filter.type = None>>,
       <<"from", filter.date_from, filter.date_from = NoDate>>,
       <<"to", filter.date_to, filter.date_to = NoDate>>,
       <<"usedResource", filter.resource, filter.resource = None>>,
       <<"paginationOffset", filter.pagination_offset, filter.pagination_offset = None>>,
       <<"paginationSize", filter.pagination_size, filter.pagination_size = None>>,
       <<"showHidden", filter.show_hidden, filter.show_hidden = None>> >>

KeepAll(item) == TRUE
\* line 51: if value is not None
KeepItem(item) == ~item[3]

\* line 51: the dict comprehension over payload.items().
RECURSIVE SelectItems(_)
SelectItems(items) ==
    IF items = <<>> THEN <<>>
    ELSE LET item == Head(items)
         IN  (IF KeepItem(item) THEN << <<item[1], item[2]>> >> ELSE <<>>)
                 \o SelectItems(Tail(items))

\* SberBankOperationsFilter.to_json, lines 40-51.
SberToJson(filter) == SelectItems(SberPayload(filter))

\* TBankOperationsFilter.to_json, lines 54-61.  date_from and date_to are the
\* strings of lines 25-30, which are never empty, so that line 55 never
\* raises.
TBankToJson(filter) == << <<"start", filter.date_from>>, <<"end", filter.date_to>> >>

\* The instant a date argument names, for date arguments that name one.
Instant(d) == IF d.fmt = "date" THEN d.v * MsPerSecond ELSE d.v
NamesInstant(d) == d.fmt \in {"digits", "date"}

(***************************************************************************)
(* get_operations.                                                         *)
(***************************************************************************)
\* line 343: date_from <= int(op["debitingTime"]["milliseconds"]) <= date_to
InRangeExclusiveEnd(ms, date_from, date_to) == date_from <= ms /\ ms < date_to
InRange(ms, date_from, date_to) == date_from <= ms /\ ms <= date_to

\* lines 340-344: the list comprehension over cached_ops.values().
RECURSIVE FilterOps(_, _, _)
FilterOps(ops, date_from, date_to) ==
    IF ops = <<>> THEN <<>>
    ELSE LET op == Head(ops)
             rest == FilterOps(Tail(ops), date_from, date_to)
         IN  IF op.ts # <<>> /\ InRange(op.ts[1], date_from, date_to)
             THEN <<op>> \o rest
             ELSE rest

\* TBankApiClient.get_operations, lines 328-349: AttributeError while
\* self.all_operations was never assigned; else the rows, as a DataFrame or
\* as a list.
GetOperations(mem, filter) ==
    IF ~mem.set THEN [exc |-> "AttributeError", shape |-> "none", rows |-> <<>>]
    ELSE [exc |-> "none",
          shape |-> IF filter.result_format = "DataFrame" THEN "DataFrame" ELSE "list",
          rows |-> FilterOps(Values(mem.ops), filter.date_from, filter.date_to)]

(***************************************************************************)
(* State.                                                                  *)
(***************************************************************************)
VARIABLES
    operations_file,    \* the content of ../tbank_operations.json
    all_operations,     \* TBankApiClient.all_operations
    headers,            \* TBankApiClient.headers
    opsWatcher,         \* the thread running _watch_get_operations_requests:
                        \* "waiting" in wait_for_request, "handling" once it
                        \* returned, "dead" once an exception ended the thread
    request,            \* the request wait_for_request returned: <<>> or <<r>>
    ev,                 \* history: the last event and its outcome
    prev,               \* history: the last ingest, when it ingested one record
    scenario,           \* history: how far the run has followed the scenario of
                        \* two ingests and one query (see AfterIngest)
    session_file,       \* the content of tbank_cookies.pkl
    tbank,              \* TBankApiClient.__init__: where it is (pc), the
                        \* history of this run of it (login, ops, wrote),
                        \* the simulator thread (sim, and captured: the
                        \* headers of the request it holds) and the session
                        \* status watcher (live, lastLive)
    sber_file,          \* the content of sber_cookies.pkl
    sber                \* the SberBankApiClient: where __init__ is (pc), its
                        \* attributes, its two threads (sim, live) and the
                        \* history of this run (main, meta, wrote,
                        \* lastLive: how the last wait for a warm-up
                        \* request ended, persistedSinceSignal: whether
                        \* the session file was written since the last
                        \* warm-up request seen)

cacheVars == <<operations_file, all_operations, headers, opsWatcher, request, ev, prev, scenario>>
tbankVars == <<session_file, tbank>>
sberVars == <<sber_file, sber>>
vars == <<cacheVars, tbankVars, sberVars>>

\* request.headers of an intercepted request.
Headers == {"h1", "h2"}

\* A body that is the JSON text {"payload": [r]}.
Single(r) == [gz |-> 0, text |-> [kind |-> "obj", payload |-> <<r>>]]
IsSingle(body) == body.gz = 0 /\ body.text.kind = "obj" /\ Len(body.text.payload) = 1
NoPrev == [one |-> FALSE]

\* The scenario: from an empty cache, ingest A (100) and B (200), ingest A
\* (150), query [120, 200].
ScenarioFirst ==
    [gz |-> 0, text |-> [kind |-> "obj", payload |-> <<Op("A", <<100>>), Op("B", <<200>>)>>]]
ScenarioSecond == Single(Op("A", <<150>>))
ScenarioQuery(f) == f.date_from = 120 /\ f.date_to = 200
AfterIngest(s, body) ==
    IF s = "empty" /\ body = ScenarioFirst THEN "first"
    ELSE IF s = "first" /\ body = ScenarioSecond THEN "second"
    ELSE "off"
AfterQuery(s, f) == IF s = "second" /\ ScenarioQuery(f) THEN "queried" ELSE "off"

\* What ev keeps of an ingest: the exception inside it, the gzip layers of
\* the body, whether the payload held an entry with an id and one without,
\* and whether a cached record was replaced by another one.
HasId(op) == op.isdict /\ op.id \in Ids
LacksId(op) == op.isdict /\ op.id \notin Ids
Mixed(p) == (\E i \in DOMAIN p : HasId(p[i])) /\ (\E i \in DOMAIN p : LacksId(p[i]))
Replaced(before, after) ==
    \E k \in Keys(before) : HasKey(after, k) /\ Get(after, k) # Get(before, k)
IngestEvent(body, r, before) ==
    [kind |-> "ingest", exc |-> r.exc, escaped |-> r.escaped, gz |-> body.gz,
     mixed |-> Mixed(body.text.payload),
     replaced |-> Replaced(LoadCachedOperations(before), r.file.ops)]

\* No session file yet.
NoSession == [exists |-> FALSE]
\* No TBankApiClient, no SberBankApiClient in construction.
\* The locals of an ingest between its statements: existing_operations
\* (existing), the entries of the payload the merge loop has not reached
\* (pending); and, for the properties, self.all_operations when the ingest
\* began (before) and what the whole ingest assigns to it (after).
NoIngest ==
    [pc |-> "idle", existing |-> <<>>, pending |-> <<>>, before |-> Unset, after |-> Unset]
\* The local cached_ops of a get_operations call between its statements.
NoQuery == [pc |-> "idle", cached_ops |-> Unset]
TBankOff ==
    [pc |-> "off", login |-> "none", ops |-> "none", wrote |-> FALSE, exc |-> "none",
     sim |-> "off", captured |-> <<>>, live |-> "off", lastLive |-> "none",
     ingest |-> NoIngest, query |-> NoQuery, buffer |-> <<>>, ingested |-> {}]
SberOff ==
    [pc |-> "off", front |-> <<>>, back |-> <<>>, nodeHeaders |-> <<>>, endpoints |-> <<>>,
     headers |-> <<>>, cookies |-> <<>>, main |-> "none", meta |-> "none", wrote |-> FALSE,
     exc |-> "none", sim |-> "off", live |-> "off", lastLive |-> "none",
     persistedSinceSignal |-> TRUE, buffer |-> <<>>, arrived |-> 0, query |-> "idle"]

\* A TBankApiClient whose operations watcher runs, no cache file yet.
Init ==
    /\ operations_file = NoFile
    /\ all_operations = Unset
    /\ headers = "None"
    /\ opsWatcher = "waiting"
    /\ request = <<>>
    /\ ev = [kind |-> "init"]
    /\ prev = NoPrev
    /\ scenario = "empty"
    /\ session_file = NoSession
    /\ tbank = [TBankOff EXCEPT !.pc = "running"]
    /\ sber_file = NoSession
    /\ sber = SberOff

\* line 184: except Exception
WatcherCatches(exc) == TRUE
AfterCycle(exc) == IF exc = "none" \/ WatcherCatches(exc) THEN "waiting" ELSE "dead"

\* _watch_get_operations_requests, line 174: wait_for_request raises
\* TimeoutException; line 184 catches it and the loop turns.
WaitTimesOut ==
    /\ opsWatcher = "waiting"
    /\ opsWatcher' = AfterCycle("TimeoutException")
    /\ ev' = [kind |-> "timeout"]
    /\ UNCHANGED <<operations_file, all_operations, headers, request, prev, scenario>>
    /\ UNCHANGED <<tbankVars, sberVars>>

\* line 174: wait_for_request returns a request with a response body among
\* bodies.
RequestArrives(bodies) ==
    /\ opsWatcher = "waiting"
    /\ \E h \in Headers, body \in bodies : request' = <<[headers |-> h, body |-> body]>>
    /\ opsWatcher' = "handling"
    /\ ev' = [kind |-> "request"]
    /\ UNCHANGED <<operations_file, all_operations, headers, prev, scenario>>
    /\ UNCHANGED <<tbankVars, sberVars>>

\* lines 175-185: the rest of the turn for the request req, up to the next
\* wait.
Handle(req) ==
    LET r == SaveNewOperationsToCacheFile(operations_file, all_operations, req.body)
    IN  /\ headers' = req.headers
        /\ operations_file' = r.file
        /\ all_operations' = r.mem
        /\ opsWatcher' = AfterCycle(IF r.escaped THEN r.exc ELSE "none")
        /\ ev' = IngestEvent(req.body, r, operations_file)
        /\ prev' = IF IsSingle(req.body) /\ r.exc = "none"
                   THEN [one |-> TRUE, rec |-> req.body.text.payload[1],
                         before |-> LoadCachedOperations(operations_file),
                         second |-> prev.one /\ prev.rec.id = req.body.text.payload[1].id]
                   ELSE NoPrev
        /\ scenario' = AfterIngest(scenario, req.body)
        /\ request' = <<>>
        /\ UNCHANGED <<tbankVars, sberVars>>

HandleRequest ==
    /\ opsWatcher = "handling"
    /\ Handle(request[1])

\* One whole turn of the loop, lines 174-185, as one step.
WatchTurn(bodies) ==
    /\ opsWatcher = "waiting"
    /\ \E h \in Headers, body \in bodies : Handle([headers |-> h, body |-> body])

\* A caller builds a TBankOperationsFilter.
NewTBankFilter ==
    /\ \E a \in TBankFilterArgs :
          ev' = [kind |-> "tfilter", args |-> a,
                 out |-> TBankOperationsFilter(a[1], a[2], a[3], a[4])]
    /\ UNCHANGED <<operations_file, all_operations, headers, opsWatcher, request, prev, scenario>>
    /\ UNCHANGED <<tbankVars, sberVars>>

\* A caller builds a SberBankOperationsFilter from dates and a result format.
NewSberFilter ==
    /\ \E f \in DateStrs \cup {NoDate}, t \in DateStrs \cup {NoDate}, rf \in Formats :
          ev' = [kind |-> "sfilter", format |-> rf,
                 out |-> SberBankOperationsFilter(None, f, t, None, rf, DefaultPaginationOffset,
                                                  DefaultPaginationSize, DefaultShowHidden)]
    /\ UNCHANGED <<operations_file, all_operations, headers, opsWatcher, request, prev, scenario>>
    /\ UNCHANGED <<tbankVars, sberVars>>

\* A caller runs get_operations with a filter it holds.
Query ==
    /\ \E f \in TBankFilters :
          /\ ev' = [kind |-> "query", filter |-> f, out |-> GetOperations(all_operations, f)]
          /\ scenario' = AfterQuery(scenario, f)
    /\ UNCHANGED <<operations_file, all_operations, headers, opsWatcher, request, prev>>
    /\ UNCHANGED <<tbankVars, sberVars>>

\* The arguments of SberBankOperationsFilter.
OperationTypes == {None, "income"}
Resources == {None, "card"}
PaginationOffsets == {None, "0", "51"}
PaginationSizes == {None, "51"}
ShowHiddens == {None, "True", "False", "yes"}
SberFilters ==
    {SberBankOperationsFilter(ty, f, t, rs, rf, po, ps, sh) :
        ty \in OperationTypes, f \in {NoDate, Digits(120), Date(0)},
        t \in {NoDate, Digits(200)}, rs \in Resources, rf \in Formats,
        po \in PaginationOffsets, ps \in PaginationSizes, sh \in ShowHiddens}

\* A caller builds a SberBankOperationsFilter from any arguments.
NewSberFilterOfAll ==
    /\ \E f \in SberFilters : ev' = [kind |-> "sfilter", out |-> f]
    /\ UNCHANGED <<operations_file, all_operations, headers, opsWatcher, request, prev, scenario>>
    /\ UNCHANGED <<tbankVars, sberVars>>

\* A caller serialises the SberBankOperationsFilter it has built.
SberToJsonCall ==
    /\ ev.kind = "sfilter"
    /\ ev' = [kind |-> "sjson", filter |-> ev.out, body |-> SberToJson(ev.out)]
    /\ UNCHANGED <<operations_file, all_operations, headers, opsWatcher, request, prev, scenario>>
    /\ UNCHANGED <<tbankVars, sberVars>>

\* A caller serialises the TBankOperationsFilter it has built.
TBankToJsonCall ==
    /\ ev.kind = "tfilter"
    /\ ev.out.exc = "none"
    /\ ev' = [kind |-> "tjson", filter |-> ev.out, body |-> TBankToJson(ev.out)]
    /\ UNCHANGED <<operations_file, all_operations, headers, opsWatcher, request, prev, scenario>>
    /\ UNCHANGED <<tbankVars, sberVars>>

\* The two filter classes alone.
NextFilter ==
    \/ NewTBankFilter
    \/ NewSberFilterOfAll
    \/ TBankToJsonCall
    \/ SberToJsonCall

SpecFilter == Init /\ [][NextFilter]_vars

\* The cache engine: the operations watcher and every body it can meet.
Next == WaitTimesOut \/ RequestArrives(Bodies) \/ HandleRequest

Spec == Init /\ [][Next]_vars

\* The bodies of SpecQuery: each entry alone, the scenario's first body, a
\* body that is no JSON and a compressed one.
Garbage == [gz |-> 0, text |-> [kind |-> "garbage", payload |-> <<>>]]
QueryBodies ==
    {Single(e) : e \in Entries} \cup {ScenarioFirst, Garbage, Gzip(Single(Op("B", <<200>>)))}

\* The cache engine with its callers, a turn of the watcher being one step.
NextQuery ==
    \/ WaitTimesOut
    \/ WatchTurn(QueryBodies)
    \/ NewTBankFilter
    \/ NewSberFilter
    \/ Query

SpecQuery == Init /\ [][NextQuery]_vars

(***************************************************************************)
(* Properties of the cache engine.                                         *)
(***************************************************************************)
\* The step that ingests the body of the request in hand.
Ingesting == opsWatcher = "handling"
Body == request[1].body
Entry(d, k) == IF HasKey(d, k) THEN <<Get(d, k)>> ELSE <<>>
Count(d, k) == Cardinality({i \in DOMAIN d : d[i][1] = k \/ d[i][2].id = k})

\* C1: when a payload holding the one record r1 is ingested and then a
\* payload holding the one record r2 with the same identifier, the cache file
\* and the in-memory cache hold exactly one entry for that identifier, it is
\* r2, and the entries of every other identifier are as before the two
\* ingests.
C1_Step ==
    (Ingesting /\ prev.one /\ HasId(prev.rec) /\ IsSingle(Body)
        /\ Body.text.payload[1].id = prev.rec.id)
    => LET r2 == Body.text.payload[1]
           cache == operations_file'.ops
       IN  /\ operations_file'.exists
           /\ all_operations' = MemOf(cache)
           /\ Count(cache, r2.id) = 1
           /\ Entry(cache, r2.id) = <<r2>>
           /\ \A k \in Ids \ {r2.id} : Entry(cache, k) = Entry(prev.before, k)
           /\ Keys(cache) \subseteq Ids
C1_LastWriteWins == [][C1_Step]_vars
\* Reached: the second of two one-record ingests for one identifier has
\* replaced the record of the first.
C1_Witness ==
    /\ ev.kind = "ingest" /\ ev.replaced
    /\ prev.one /\ prev.second /\ HasId(prev.rec)
    /\ Entry(operations_file.ops, prev.rec.id) = <<prev.rec>>
    /\ Entry(prev.before, prev.rec.id) # <<prev.rec>>

\* The last entry of the payload p with identifier k, if any.
LastWithId(p, k) ==
    LET at == {i \in DOMAIN p : p[i].id = k}
    IN  IF at = {} THEN <<>> ELSE <<p[CHOOSE i \in at : \A j \in at : j <= i]>>

\* C5: ingesting a payload of records, some with an identifier and some
\* without, raises nothing, upserts every record that has an identifier (the
\* last one of each identifier stays) and adds no entry for the others.
C5_Step ==
    (Ingesting /\ Body.gz <= 1 /\ Body.text.kind = "obj"
        /\ \A i \in DOMAIN Body.text.payload : Body.text.payload[i].isdict)
    => LET p == Body.text.payload
           before == LoadCachedOperations(operations_file)
           cache == operations_file'.ops
       IN  /\ ev'.exc = "none" /\ ~ev'.escaped
           /\ operations_file'.exists
           /\ all_operations' = MemOf(cache)
           /\ Keys(cache) = Keys(before) \cup {p[i].id : i \in {j \in DOMAIN p : HasId(p[j])}}
           /\ \A k \in Ids :
                 Entry(cache, k) = IF LastWithId(p, k) # <<>> THEN LastWithId(p, k)
                                   ELSE Entry(before, k)
C5_SkipsRecordsWithoutId == [][C5_Step]_vars
\* Reached: a payload mixing the two kinds of record was ingested and the
\* cache holds a record of it.
C5_Witness ==
    ev.kind = "ingest" /\ ev.mixed /\ ev.exc = "none" /\ operations_file.ops # <<>>

\* C6: ingesting the gzip-compressed form of an uncompressed payload leaves
\* the cache file and the in-memory cache that ingesting the payload itself
\* would leave.
C6_Step ==
    (Ingesting /\ Body.gz = 1)
    => LET plain == SaveNewOperationsToCacheFile(operations_file, all_operations,
                                                 [gz |-> 0, text |-> Body.text])
       IN  /\ operations_file' = plain.file
           /\ all_operations' = plain.mem
Unparsable(body) == body.text.kind = "garbage" \/ body.gz > 1

\* C7: ingesting a payload that cannot be parsed leaves the cache file and
\* the in-memory cache as they were, lets no exception out of the ingest, and
\* the operations watcher goes back to waiting.
C7_Step ==
    (Ingesting /\ Unparsable(Body))
    => /\ operations_file' = operations_file
       /\ all_operations' = all_operations
       /\ ev'.exc # "none" /\ ~ev'.escaped
       /\ opsWatcher' = "waiting"
C7_MalformedPayloadIsSkipped == [][C7_Step]_vars
\* Reached: an unparsable payload was ingested over a cache holding records,
\* and the watcher waits again.
C7_Witness ==
    /\ ev.kind = "ingest" /\ ev.exc \in {"JSONDecodeError", "UnicodeDecodeError"}
    /\ operations_file.ops # <<>> /\ opsWatcher = "waiting"

\* No two entries of the dict d are for one identifier.
OneEntryPerId(d) ==
    /\ \A i, j \in DOMAIN d : d[i][1] = d[j][1] => i = j
    /\ \A i \in DOMAIN d : d[i][2].id = d[i][1]

\* C8: over every step (ingests of every kind of payload, queries, filter
\* constructions) the identifiers in the cache file and in the in-memory
\* cache only grow, and neither holds two entries for one identifier.
C8_Step ==
    /\ Keys(operations_file.ops) \subseteq Keys(operations_file'.ops)
    /\ Keys(all_operations.ops) \subseteq Keys(all_operations'.ops)
    /\ operations_file.exists => operations_file'.exists
    /\ all_operations.set => all_operations'.set
    /\ OneEntryPerId(operations_file'.ops)
    /\ OneEntryPerId(all_operations'.ops)
Between(d, lo, hi) ==
    {d[i][2] : i \in {j \in DOMAIN d : d[j][2].ts # <<>> /\ lo <= d[j][2].ts[1]
                                         /\ d[j][2].ts[1] <= hi}}
Rows(rows) == {rows[i] : i \in DOMAIN rows}

\* C2: get_operations returns exactly the cached records whose timestamp t
\* satisfies from <= t <= to, each once; with from = to, exactly the records
\* at that instant.
C2_QueryReturnsRange ==
    (ev.kind = "query" /\ all_operations.set)
    => /\ ev.out.exc = "none"
       /\ Rows(ev.out.rows) = Between(all_operations.ops, ev.filter.date_from, ev.filter.date_to)
       /\ Len(ev.out.rows) = Cardinality(Rows(ev.out.rows))
\* Reached: a query with from = to returned a record at that instant and left
\* out another cached record.
C2_Witness ==
    /\ ev.kind = "query" /\ all_operations.set
    /\ ev.filter.date_from = ev.filter.date_to
    /\ Len(ev.out.rows) = 1
    /\ Len(all_operations.ops) = 2

ScenarioCache == <<<<"A", Op("A", <<150>>)>>, <<"B", Op("B", <<200>>)>>>>

\* C3 as stated: after the two ingests of the scenario the cache is
\* {A: 150, B: 200}, and the query [120, 200] returns record B only.
C3_AsStated ==
    /\ scenario = "second" =>
          operations_file = FileOf(ScenarioCache) /\ all_operations = MemOf(ScenarioCache)
    /\ (scenario = "queried" /\ ev.kind = "query") => ev.out.rows = <<Op("B", <<200>>)>>
\* C3, amended: after the two ingests of the scenario the cache is
\* {A: 150, B: 200}, and the query [120, 200] returns records A (150) and B
\* (200): both timestamps lie in the range.
C3_Scenario ==
    /\ scenario \in {"second", "queried"} =>
          operations_file = FileOf(ScenarioCache) /\ all_operations = MemOf(ScenarioCache)
    /\ (scenario = "queried" /\ ev.kind = "query") =>
          ev.out.exc = "none" /\ ev.out.rows = <<Op("A", <<150>>), Op("B", <<200>>)>>
\* Reached: the scenario was run to its query.
C3_Witness == scenario = "queried" /\ ev.kind = "query" /\ ev.out.exc = "none"

\* C4: no filter object has from later than to, and no query runs with such
\* a filter.
C4_FromAfterToIsRejected ==
    /\ (ev.kind = "tfilter" /\ ev.out.exc = "none") => ev.out.date_from <= ev.out.date_to
    /\ (ev.kind = "sfilter" /\ ev.out.exc = "none"
           /\ NamesInstant(ev.out.date_from) /\ NamesInstant(ev.out.date_to))
       => Instant(ev.out.date_from) <= Instant(ev.out.date_to)
    /\ ev.kind = "query" => ev.filter.date_from <= ev.filter.date_to

(***************************************************************************)
(* TBankApiClient.__init__ and the threads it starts.                      *)
(***************************************************************************)
\* driver.get_cookies() and get_local_storage() when the session is
\* conserved; {"User-Agent": navigator.userAgent}.
Cookies == {"c1", "c2"}
LocalStorage == {"ls1"}
UserAgent == "ua"

\* json.loads
JsonLoads(text) ==
    IF text.kind = "garbage"
    THEN [exc |-> "JSONDecodeError", value |-> <<>>]
    ELSE [exc |-> "none", value |-> text.payload]
\* line 83: the string '../tbank_operations.json', as the JSON text line 99
\* takes it for.
OperationsFilePath == [kind |-> "garbage", payload |-> <<>>]

\* No process yet, no file yet.
InitOff ==
    /\ operations_file = NoFile
    /\ all_operations = Unset
    /\ headers = "None"
    /\ opsWatcher = "off"
    /\ request = <<>>
    /\ ev = [kind |-> "init"]
    /\ prev = NoPrev
    /\ scenario = "empty"
    /\ session_file = NoSession
    /\ tbank = TBankOff
    /\ sber_file = NoSession
    /\ sber = SberOff

\* lines 82-93 and 270-272: a process calls TBankApiClient(); the login page
\* is opened.
TBankStart ==
    /\ tbank.pc = "off"
    /\ tbank' = [TBankOff EXCEPT !.pc = "await_login"]
    /\ all_operations' = Unset
    /\ headers' = "None"
    /\ ev' = [kind |-> "start"]
    /\ UNCHANGED <<operations_file, opsWatcher, request, prev, scenario, session_file, sberVars>>

\* line 273: the wait for the request to MAIN_URL.  It returns (lines
\* 275-276 open the operations page), or it raises TimeoutException, which
\* line 286 catches.
TBankLoginWait ==
    /\ tbank.pc = "await_login"
    /\ \/ tbank' = [tbank EXCEPT !.pc = "await_ops", !.login = "ok"]
       \/ tbank' = [tbank EXCEPT !.pc = "conserve", !.login = "timeout"]
    /\ ev' = [kind |-> "login"]
    /\ UNCHANGED <<operations_file, all_operations, headers, opsWatcher, request, prev,
                   scenario, session_file, sberVars>>

\* lines 277-289: the wait for the listing request.  It raises
\* TimeoutException (caught, line 286), or it returns a request whose
\* response body is ingested (an exception from there is caught, line 288).
TBankOpsWait ==
    /\ tbank.pc = "await_ops"
    /\ \/ /\ tbank' = [tbank EXCEPT !.pc = "conserve", !.ops = "timeout"]
          /\ ev' = [kind |-> "timeout"]
          /\ UNCHANGED <<operations_file, all_operations, headers, prev, scenario>>
       \/ \E h \in Headers, body \in Bodies :
             LET r == SaveNewOperationsToCacheFile(operations_file, all_operations, body)
             IN  /\ tbank' = [tbank EXCEPT !.pc = "conserve", !.ops = "seen"]
                 /\ headers' = h
                 /\ operations_file' = r.file
                 /\ all_operations' = r.mem
                 /\ ev' = IngestEvent(body, r, operations_file)
                 /\ prev' = NoPrev
                 /\ scenario' = AfterIngest(scenario, body)
    /\ UNCHANGED <<opsWatcher, request, session_file, sberVars>>

\* __conserve_session, lines 295-316.
TBankConserveSession(cookies, storage) ==
    [headers |-> UserAgent,
     file |-> [exists |-> TRUE, cookies |-> cookies, headers |-> UserAgent,
               local_storage |-> storage]]

\* lines 291-293.
TBankConserve ==
    /\ tbank.pc = "conserve"
    /\ \E c \in Cookies, ls \in LocalStorage :
          LET r == TBankConserveSession(c, ls)
          IN  /\ headers' = r.headers
              /\ session_file' = r.file
    /\ tbank' = [tbank EXCEPT !.pc = "persisted", !.wrote = TRUE]
    /\ ev' = [kind |-> "conserve"]
    /\ UNCHANGED <<operations_file, all_operations, opsWatcher, request, prev, scenario, sberVars>>

\* lines 97-104: json.loads of the file's path, then the threads.
TBankFinishInit ==
    /\ tbank.pc = "persisted"
    /\ LET r == JsonLoads(OperationsFilePath)
       IN  IF r.exc # "none"
           THEN /\ tbank' = [tbank EXCEPT !.pc = "raised", !.exc = r.exc]
                /\ UNCHANGED <<all_operations, opsWatcher>>
           ELSE /\ tbank' = [tbank EXCEPT !.pc = "running"]
                /\ all_operations' = MemOf(r.value)
                /\ opsWatcher' = "waiting"
    /\ ev' = [kind |-> "init"]
    /\ UNCHANGED <<operations_file, headers, request, prev, scenario, session_file, sberVars>>

\* The process ends; the files stay.
TBankExit ==
    /\ tbank.pc \in {"raised", "running"}
    /\ tbank' = [tbank EXCEPT !.pc = "off"]
    /\ opsWatcher' = "off"
    /\ request' = <<>>
    /\ ev' = [kind |-> "exit"]
    /\ UNCHANGED <<operations_file, all_operations, headers, prev, scenario, session_file, sberVars>>

\* A TBankApiClient whose three threads run, as _start_activity_threads
\* (lines 106-114) starts them: the session persisted by the constructor,
\* an empty cache loaded.
InitAlive ==
    /\ operations_file = NoFile
    /\ all_operations = MemOf(<<>>)
    /\ headers = UserAgent
    /\ opsWatcher = "waiting"
    /\ request = <<>>
    /\ ev = [kind |-> "init"]
    /\ prev = NoPrev
    /\ scenario = "empty"
    /\ session_file \in {TBankConserveSession(c, ls).file : c \in Cookies, ls \in LocalStorage}
    /\ tbank = [TBankOff EXCEPT !.pc = "running", !.login = "ok", !.ops = "seen",
                                !.wrote = TRUE, !.sim = "idle", !.live = "waiting"]
    /\ sber_file = NoSession
    /\ sber = SberOff

\* _simulate_human_activity, lines 122-131 and 135-138: the wait for the
\* listing request raises TimeoutException (caught, line 135, and the cycle
\* ends), or it returns a request whose headers line 130 keeps.
TBankSimulatorWait ==
    /\ tbank.sim = "idle"
    /\ \/ UNCHANGED <<tbank, headers>>
       \/ \E h \in Headers :
             /\ headers' = h
             /\ tbank' = [tbank EXCEPT !.sim = "captured", !.captured = <<h>>]
    /\ ev' = [kind |-> "simulator"]
    /\ UNCHANGED <<operations_file, all_operations, opsWatcher, request, prev, scenario,
                   session_file, sberVars>>

\* lines 132-138: __conserve_session and the sleep before the next cycle.
TBankSimulatorConserve ==
    /\ tbank.sim = "captured"
    /\ \E c \in Cookies, ls \in LocalStorage :
          LET r == TBankConserveSession(c, ls)
          IN  /\ headers' = r.headers
              /\ session_file' = r.file
    /\ tbank' = [tbank EXCEPT !.sim = "idle"]
    /\ ev' = [kind |-> "conserve"]
    /\ UNCHANGED <<operations_file, all_operations, opsWatcher, request, prev, scenario, sberVars>>

\* _watch_session_status_requests, lines 145-151 and 158-167: the wait
\* raises TimeoutException, which is logged, or it returns a request whose
\* headers line 151 keeps.
TBankStatusWait ==
    /\ tbank.live = "waiting"
    /\ \/ /\ tbank' = [tbank EXCEPT !.lastLive = "timeout"]
          /\ UNCHANGED headers
       \/ \E h \in Headers :
             /\ headers' = h
             /\ tbank' = [tbank EXCEPT !.live = "detected", !.lastLive = "signal"]
    /\ ev' = [kind |-> "status"]
    /\ UNCHANGED <<operations_file, all_operations, opsWatcher, request, prev, scenario,
                   session_file, sberVars>>

\* lines 153-157: the request log is cleared, the thread sleeps and turns
\* to its next wait.
TBankStatusResume ==
    /\ tbank.live = "detected"
    /\ tbank' = [tbank EXCEPT !.live = "waiting"]
    /\ ev' = [kind |-> "status"]
    /\ UNCHANGED <<operations_file, all_operations, headers, opsWatcher, request, prev,
                   scenario, session_file, sberVars>>

\* The bodies the operations watcher meets next to the two other threads.
AliveBodies == {Garbage, Single(Op("A", <<100>>))}

\* The three threads of a TBankApiClient.
NextTBankAlive ==
    \/ TBankSimulatorWait
    \/ TBankSimulatorConserve
    \/ TBankStatusWait
    \/ TBankStatusResume
    \/ WaitTimesOut
    \/ WatchTurn(AliveBodies)

SpecTBankAlive == InitAlive /\ [][NextTBankAlive]_vars

NextTBank ==
    \/ TBankStart
    \/ TBankLoginWait
    \/ TBankOpsWait
    \/ TBankConserve
    \/ TBankFinishInit
    \/ TBankExit

SpecTBank == InitOff /\ [][NextTBank]_vars

\* C10 as stated: when the wait for the login times out, the session file is
\* not written, the constructor does not reach the persisted state and the
\* watchers are not started.
C10_LoginTimeoutStopsBeforePersist ==
    tbank.login = "timeout"
    => /\ ~tbank.wrote
       /\ tbank.pc \notin {"persisted", "running"}
       /\ opsWatcher = "off"

(***************************************************************************)
(* SberBankApiClient: __init__, the threads it starts, the queries.        *)
(***************************************************************************)
\* The URL of an intercepted request, as far as lines 184 and 191 read it:
\* its scheme and what stands between the scheme and the first dot.
Nodes == {"node1", "node2"}
Urls == [scheme : {"https", "http"}, node : Nodes]

\* url.split(".")[:1:][0].split("https://")[1]
NodeIdOf(url) ==
    IF url.scheme = "https"
    THEN [exc |-> "none", id |-> url.node]
    ELSE [exc |-> "IndexError", id |-> ""]

\* __initialize_sberbank_public_api_endpoints, lines 144-148.
InitializeEndpoints(front, back) ==
    [MAIN_URL |-> <<front, "/main">>,
     OPERATIONS_PAGE_URL |-> <<front, "/operations">>,
     WARMUP_URL |-> <<front, "/api/warmUpSession">>,
     LOG_REPORT_URL |-> <<front, "/api/log/report">>,
     OPERATIONS_URL |-> <<back, "/uoh-bh/v1/operations/list">>]

\* lines 58-64 and 152-154.
SberStart ==
    /\ sber.pc = "off"
    /\ sber' = [SberOff EXCEPT !.pc = "await_main"]
    /\ UNCHANGED <<cacheVars, tbankVars, sber_file>>

\* line 156, __get_sber_frontend_web_node_id: the wait for '/main' raises
\* TimeoutException (caught, line 172) or returns a request whose URL is
\* parsed (IndexError is caught, line 174).
SberMainWait ==
    /\ sber.pc = "await_main"
    /\ \/ sber' = [sber EXCEPT !.pc = "conserve", !.main = "timeout"]
       \/ \E url \in Urls :
             LET r == NodeIdOf(url)
             IN  IF r.exc # "none"
                 THEN sber' = [sber EXCEPT !.pc = "conserve", !.main = "seen"]
                 ELSE sber' = [sber EXCEPT !.pc = "await_meta", !.main = "seen",
                                           !.front = <<r.id>>]
    /\ UNCHANGED <<cacheVars, tbankVars, sber_file>>

\* lines 159-171, __get_sber_backend_api_web_node_id: the wait for the meta
\* request raises TimeoutException (caught, line 172) or returns a request;
\* line 189 keeps its headers, line 191 parses its URL, lines 162-171 derive
\* the endpoints or raise (caught, line 174).
SberMetaWait ==
    /\ sber.pc = "await_meta"
    /\ \/ sber' = [sber EXCEPT !.pc = "conserve", !.meta = "timeout"]
       \/ \E h \in Headers, url \in Urls :
             LET r == NodeIdOf(url)
                 front == sber.front[1]
             IN  IF r.exc # "none"
                 THEN sber' = [sber EXCEPT !.pc = "conserve", !.meta = "seen",
                                           !.nodeHeaders = <<h>>]
                 ELSE IF front # "" /\ r.id # ""
                 THEN sber' = [sber EXCEPT !.pc = "conserve", !.meta = "seen",
                                           !.nodeHeaders = <<h>>, !.back = <<r.id>>,
                                           !.endpoints = <<InitializeEndpoints(front, r.id)>>]
                 ELSE sber' = [sber EXCEPT !.pc = "conserve", !.meta = "seen",
                                           !.nodeHeaders = <<h>>, !.back = <<r.id>>]
    /\ UNCHANGED <<cacheVars, tbankVars, sber_file>>

NoMissingAttribute(inst) == FALSE
MissingHeadersOnly(inst) == inst.nodeHeaders = <<>>
\* The attributes lines 205, 212 and 213 read and nothing has assigned.
MissingAttribute(inst) ==
    inst.nodeHeaders = <<>> \/ inst.front = <<>> \/ inst.back = <<>>

\* __conserve_session, lines 193-217.
SberConserveSession(inst, cookies, storage) ==
    LET hs == <<UserAgent>> \o inst.nodeHeaders
    IN  IF MissingAttribute(inst)
        THEN [exc |-> "AttributeError", wrote |-> FALSE, file |-> NoSession,
              cookies |-> <<cookies>>, headers |-> <<UserAgent>>]
        ELSE [exc |-> "none", wrote |-> TRUE,
              file |-> [exists |-> TRUE, cookies |-> cookies, headers |-> hs,
                        local_storage |-> storage,
                        sberbank_frontend_web_node_id |-> inst.front,
                        sberbank_backend_api_web_node_id |-> inst.back],
              cookies |-> <<cookies>>, headers |-> hs]

\* lines 177-179.
SberConserve ==
    /\ sber.pc = "conserve"
    /\ \E c \in Cookies, ls \in LocalStorage :
          LET r == SberConserveSession(sber, c, ls)
          IN  /\ sber' = [sber EXCEPT !.pc = IF r.exc = "none" THEN "persisted" ELSE "raised",
                                      !.exc = r.exc, !.wrote = r.wrote,
                                      !.cookies = r.cookies, !.headers = r.headers]
              /\ sber_file' = IF r.wrote THEN r.file ELSE sber_file
    /\ UNCHANGED <<cacheVars, tbankVars>>

\* lines 69-74: the two daemon threads are started.
SberFinishInit ==
    /\ sber.pc = "persisted"
    /\ sber' = [sber EXCEPT !.pc = "running", !.sim = "starting", !.live = "waiting"]
    /\ UNCHANGED <<cacheVars, tbankVars, sber_file>>

\* _simulate_human_activity, line 86: the thread opens the operations page
\* before its loop and outside its try; an exception of driver.get ends the
\* thread ("dead"), no handler being above it.
SberSimulatorOpen ==
    /\ sber.sim = "starting"
    /\ \/ sber' = [sber EXCEPT !.sim = "idle"]
       \/ sber' = [sber EXCEPT !.sim = "dead"]
    /\ UNCHANGED <<cacheVars, tbankVars, sber_file>>

\* _simulate_human_activity, lines 88-99 and 103-106: the wait for the
\* listing request raises TimeoutException (caught, line 103, and the cycle
\* ends), or it returns a request whose headers lines 97 and 99 keep.
SberSimulatorWait ==
    /\ sber.sim = "idle"
    /\ \/ sber' = sber
       \/ \E h \in Headers :
             sber' = [sber EXCEPT !.sim = "captured", !.headers = <<h>>,
                                  !.nodeHeaders = <<h>>]
    /\ UNCHANGED <<cacheVars, tbankVars, sber_file>>

\* lines 100-106: __conserve_session, any exception of it caught at line
\* 103, and the sleep before the next cycle.
SberSimulatorConserve ==
    /\ sber.sim = "captured"
    /\ \E c \in Cookies, ls \in LocalStorage :
          LET r == SberConserveSession(sber, c, ls)
          IN  /\ sber' = [sber EXCEPT !.sim = "idle", !.cookies = r.cookies,
                                      !.headers = r.headers,
                                      !.persistedSinceSignal = @ \/ r.wrote]
              /\ sber_file' = IF r.wrote THEN r.file ELSE sber_file
    /\ UNCHANGED <<cacheVars, tbankVars>>

RestartLogin(inst) == [inst EXCEPT !.pc = "await_main", !.lastLive = "timeout"]
\* _watch_warmup_requests, lines 123-130: the timeout is logged.
AfterWarmupTimeout(inst) == [inst EXCEPT !.lastLive = "timeout"]

\* lines 114-118 and 123-132: the wait for the warm-up request raises
\* TimeoutException, or it returns a request.
SberWarmupWait ==
    /\ sber.live = "waiting"
    /\ \/ sber' = AfterWarmupTimeout(sber)
       \/ sber' = [sber EXCEPT !.live = "detected", !.lastLive = "signal",
                               !.persistedSinceSignal = FALSE]
    /\ UNCHANGED <<cacheVars, tbankVars, sber_file>>

\* lines 119-122: the request log is cleared, the thread sleeps and turns
\* to its next wait.
SberWarmupResume ==
    /\ sber.live = "detected"
    /\ sber' = [sber EXCEPT !.live = "waiting"]
    /\ UNCHANGED <<cacheVars, tbankVars, sber_file>>

\* The process ends, and its daemon threads with it; the file stays.
SberExit ==
    /\ sber.pc \in {"raised", "running"}
    /\ sber' = [sber EXCEPT !.pc = "off", !.sim = "off", !.live = "off"]
    /\ UNCHANGED <<cacheVars, tbankVars, sber_file>>

\* What the POST to OPERATIONS_URL meets: no connection, or a response with
\* a status and a body that is the JSON of a listing ("ops"), the JSON of
\* another object ("object") or no JSON ("text").
StatusOk == 200
StatusServerError == 500
Transports ==
    {[kind |-> "network_error", status |-> 0, body |-> "none"]}
        \cup {[kind |-> "response", status |-> st, body |-> b] :
                 st \in {StatusOk, StatusServerError}, b \in {"ops", "object", "text"}}
\* data['body']['operations'] of a listing.
ListedOperations == <<"op1", "op2">>
\* The filters of the queries: one of each result format.
SberQueryFilters ==
    {SberBankOperationsFilter(None, NoDate, NoDate, None, rf, DefaultPaginationOffset,
                              DefaultPaginationSize, DefaultShowHidden) : rf \in Formats}
Shaped(filter, rows) ==
    [exc |-> "none",
     shape |-> IF filter.result_format = "DataFrame" THEN "DataFrame" ELSE "list",
     rows |-> rows]
Raised(exc) == [exc |-> exc, shape |-> "none", rows |-> <<>>]
ReturnedNone == [exc |-> "none", shape |-> "None", rows |-> <<>>]

\* get_operations_via_requests, lines 233-246: session.post raises when
\* there is no connection; response.json() raises when the body is no JSON
\* and line 231 raises when the object has no listing.
GetOperationsViaRequests(filter, transport) ==
    IF transport.kind = "network_error" THEN Raised("ConnectionError")
    ELSE IF transport.status = StatusOk
    THEN IF transport.body = "text" THEN Raised("JSONDecodeError")
         ELSE IF transport.body = "object" THEN Raised("KeyError")
         ELSE Shaped(filter, ListedOperations)
    ELSE ReturnedNone

\* get_operations, lines 248-291: the browser's fetch; a rejected fetch or
\* response.json() reaches the callback as {'error': ...} (line 274), any
\* JSON object as itself, whatever the status.
SberGetOperations(filter, transport) ==
    IF transport.kind = "network_error" \/ transport.body = "text" THEN ReturnedNone
    ELSE IF transport.body = "object" THEN Shaped(filter, <<>>)
    ELSE Shaped(filter, ListedOperations)

\* A caller that holds the client runs one of the two queries.
SberQuery ==
    /\ sber.pc = "running"
    /\ \E f \in SberQueryFilters, t \in Transports :
          \/ ev' = [kind |-> "squery", via |-> "requests", transport |-> t,
                    body |-> SberToJson(f), out |-> GetOperationsViaRequests(f, t)]
          \/ ev' = [kind |-> "squery", via |-> "browser", transport |-> t,
                    body |-> SberToJson(f), out |-> SberGetOperations(f, t)]
    /\ UNCHANGED <<operations_file, all_operations, headers, opsWatcher, request, prev, scenario>>
    /\ UNCHANGED <<tbankVars, sberVars>>

\* The session file from line 215 (open(..., "wb") empties it) until
\* pickle.dump at line 216 has written all of session_data.
Truncated == [exists |-> TRUE, truncated |-> TRUE]

\* The process ends while __conserve_session is between lines 215 and 216:
\* called by the constructor (line 178), or by the simulator (line 100), a
\* daemon thread that stops wherever it is when the main thread returns.
SberExitInPersist ==
    /\ sber.pc = "conserve" \/ sber.sim = "captured"
    /\ ~MissingAttribute(sber)
    /\ sber_file' = Truncated
    /\ sber' = [sber EXCEPT !.pc = "off", !.sim = "off", !.live = "off"]
    /\ UNCHANGED <<cacheVars, tbankVars>>

NextSber ==
    \/ SberQuery
    \/ SberExitInPersist
    \/ SberStart
    \/ SberMainWait
    \/ SberMetaWait
    \/ SberConserve
    \/ SberFinishInit
    \/ SberSimulatorOpen
    \/ SberSimulatorWait
    \/ SberSimulatorConserve
    \/ SberWarmupWait
    \/ SberWarmupResume
    \/ SberExit

SpecSber == InitOff /\ [][NextSber]_vars

Complete(file) == file.exists /\ "headers" \in DOMAIN file

\* C11 as stated: a client built while a session file persisted by an
\* earlier process is on disk holds that file's frontend node identifier,
\* backend node identifier and headers (the state is restored).
C11_RestoreYieldsPersisted ==
    (sber.pc \in {"await_main", "await_meta"} /\ Complete(sber_file))
    => /\ sber.front = sber_file.sberbank_frontend_web_node_id
       /\ sber.back = sber_file.sberbank_backend_api_web_node_id
       /\ sber.headers = sber_file.headers

\* C12: whenever the SberBankApiClient counts its session as usable (the
\* constructor has persisted it, or the threads run), it holds a non-empty
\* frontend node identifier, a non-empty backend node identifier and a
\* non-empty header set; and every complete session file holds the same.
C12_UsableSessionIsWhole ==
    /\ (sber.pc \in {"persisted", "running"} \/ sber.sim # "off" \/ sber.live # "off")
       => /\ sber.front # <<>> /\ sber.front # <<"">>
          /\ sber.back # <<>> /\ sber.back # <<"">>
          /\ sber.headers # <<>>
    /\ Complete(sber_file)
       => /\ sber_file.sberbank_frontend_web_node_id \notin {<<>>, <<"">>}
          /\ sber_file.sberbank_backend_api_web_node_id \notin {<<>>, <<"">>}
          /\ sber_file.headers # <<>>

\* C12: a running client whose simulator has refreshed the session file.
C12_Witness ==
    /\ sber.pc = "running"
    /\ sber.sim = "idle"
    /\ Complete(sber_file)
    /\ sber.headers = sber_file.headers
    /\ Len(sber.headers) = 2

\* C13 as stated: at every point of every execution the session file, once
\* it exists, holds a complete session state, the previous one or the new
\* one; it is never empty or partly written.
C13_SessionFileIsNeverPartial ==
    sber_file.exists => Complete(sber_file)

(***************************************************************************)
(* Properties of the filters.                                              *)
(***************************************************************************)
SberBodyNames ==
    {"filterName", "from", "to", "usedResource", "paginationOffset", "paginationSize",
     "showHidden"}
\* The key k is in the body b exactly when present, and then with value v.
Carries(b, k, present, v) ==
    /\ HasKey(b, k) <=> present
    /\ present => Get(b, k) = v

\* C15: the body a SberBankOperationsFilter serialises to holds, once each
\* and under the names filterName, from, to, usedResource, paginationOffset,
\* paginationSize and showHidden, exactly the fields that are not None, with
\* their values; the body of a TBankOperationsFilter holds start and end.
C15_BodyHoldsPresentFields ==
    /\ ev.kind = "sjson"
       => LET f == ev.filter
              b == ev.body
          IN  /\ Keys(b) \subseteq SberBodyNames
              /\ Len(b) = Cardinality(Keys(b))
              /\ Carries(b, "filterName", f.type # None, f.type)
              /\ Carries(b, "from", f.date_from # NoDate, f.date_from)
              /\ Carries(b, "to", f.date_to # NoDate, f.date_to)
              /\ Carries(b, "usedResource", f.resource # None, f.resource)
              /\ Carries(b, "paginationOffset", f.pagination_offset # None, f.pagination_offset)
              /\ Carries(b, "paginationSize", f.pagination_size # None, f.pagination_size)
              /\ Carries(b, "showHidden", TRUE, f.show_hidden)
    /\ ev.kind = "tjson"
       => LET f == ev.filter
              b == ev.body
          IN  /\ Keys(b) = {"start", "end"}
              /\ Len(b) = 2
              /\ Get(b, "start") = f.date_from
              /\ Get(b, "end") = f.date_to

\* C15: a serialised filter with an absent type, an absent end date and an
\* absent page size, and with a start date and a resource.
C15_Witness ==
    /\ ev.kind = "sjson"
    /\ ev.filter.type = None
    /\ ev.filter.date_to = NoDate
    /\ ev.filter.pagination_size = None
    /\ ev.filter.date_from # NoDate
    /\ ev.filter.resource # None
    /\ Len(ev.body) = 4

(***************************************************************************)
(* Properties of the SberBankApiClient queries.                            *)
(***************************************************************************)
TransportFailed(t) == t.kind = "network_error" \/ t.status # StatusOk

\* C14 as stated: a query that meets a transport failure, a network error or
\* a response whose status is not 2xx, raises nothing and returns None or no
\* rows.
C14_QueryNeverRaisesOnTransportFailure ==
    (ev.kind = "squery" /\ TransportFailed(ev.transport))
    => /\ ev.out.exc = "none"
       /\ ev.out.rows = <<>>

\* The result_format arguments that are neither dict nor pd.DataFrame.
UnknownShape(rf) == rf \notin {"dict", "DataFrame"}

\* C16: building a TBankOperationsFilter or a SberBankOperationsFilter with a
\* result_format that is neither dict nor pd.DataFrame raises nothing (a
\* TBankOperationsFilter raises for an unparsable date only) and leaves the
\* filter's result_format None; get_operations with a filter whose
\* result_format is None returns the records as a list.
C16_UnknownShapeDegrades ==
    /\ (ev.kind = "tfilter" /\ UnknownShape(ev.args[3]))
       => /\ ev.out.exc = "none" <=> (BadDate \notin {ev.args[1], ev.args[2]})
          /\ ev.out.exc = "none" => ev.out.result_format = "None"
    /\ (ev.kind = "sfilter" /\ "format" \in DOMAIN ev /\ UnknownShape(ev.format))
       => /\ ev.out.exc = "none"
          /\ ev.out.result_format = "None"
    /\ (ev.kind = "query" /\ ev.filter.result_format = "None" /\ ev.out.exc = "none")
       => /\ ev.out.shape = "list"
          /\ \A i \in DOMAIN ev.out.rows : ev.out.rows[i] \in Entries

\* C16: a TBankOperationsFilter was built with result_format=list.
C16_Witness ==
    /\ ev.kind = "tfilter"
    /\ ev.args[3] = "list"
    /\ ev.out.exc = "none"
    /\ ev.out.result_format = "None"

(***************************************************************************)
(* Properties of the constructors and of the threads.                      *)
(***************************************************************************)
\* C17 as stated, for a run that has ended: no watcher runs before the
\* session is persisted, and a TBankApiClient constructor whose login and
\* listing waits both succeeded does not end by raising: it completes and
\* starts the watchers.
C17_LoginSuccessStartsWatchers ==
    /\ opsWatcher # "off" => tbank.pc = "running"
    /\ (tbank.login = "ok" /\ tbank.ops = "seen") => tbank.pc # "raised"

\* C18: once the SberBankApiClient constructor has returned, no step of a
\* watcher, of the simulator or of a query, a timeout of the warm-up wait
\* included, brings the client back into the login sequence or changes the
\* node identifiers and endpoints found by it; the client stays running
\* until the process ends.
C18_Step ==
    sber.pc = "running"
    => /\ sber'.pc \in {"running", "off"}
       /\ sber'.front = sber.front
       /\ sber'.back = sber.back
       /\ sber'.endpoints = sber.endpoints
       /\ sber'.main = sber.main
       /\ sber'.meta = sber.meta
C18_LoginRunsOnce == [][C18_Step]_vars

\* C18: a running client whose warm-up wait has timed out, whose simulator
\* has captured a request and which has served a query.
C18_Witness ==
    /\ sber.pc = "running"
    /\ sber.lastLive = "timeout"
    /\ sber.sim = "captured"
    /\ ev.kind = "squery"

\* C19 as stated: when a simulator cycle of the TBankApiClient that has
\* observed the listing request ends, the headers of that request are the
\* client's headers and the headers in the session file the cycle has
\* written.
C19_Step ==
    (tbank.sim = "captured" /\ tbank'.sim = "idle")
    => /\ headers' = tbank.captured[1]
       /\ session_file'.headers = tbank.captured[1]
C19_CycleKeepsCapturedHeaders == [][C19_Step]_vars

\* C20 as stated: when the warm-up watcher of the SberBankApiClient has
\* detected a warm-up request, the session file is written before the
\* watcher turns to its next wait.
C20_Step ==
    (sber.live = "detected" /\ sber'.live = "waiting") => sber.persistedSinceSignal
C20_SignalIsFollowedByPersist == [][C20_Step]_vars

\* C21 as stated: no error raised inside a started watcher task ends that
\* task: the simulator and the warm-up watcher of a SberBankApiClient whose
\* threads were started are always in their loops, so that another cycle
\* can begin.
C21_StartedWatcherNeverStops ==
    sber.pc = "running" => (sber.sim # "dead" /\ sber.live # "dead")

\* C22 as stated: the session a running SberBankApiClient holds in memory
\* and the session in its file are one whole capture: the headers and the
\* cookies in memory are those the persist that wrote the file has taken,
\* never the headers of one capture beside the cookies of another.
C22_SessionIsOneCapture ==
    (sber.pc = "running" /\ Complete(sber_file))
    => /\ sber.headers = sber_file.headers
       /\ sber.cookies = <<sber_file.cookies>>

\* C25 as stated: the cache is loaded from the durable file: when the
\* constructor of a TBankApiClient has ended while the cache file holds
\* records written by an earlier ingest or an earlier process, a client has
\* been built and the cache its first query reads holds those records.
C25_CacheIsLoadedFromFile ==
    (tbank.pc \in {"raised", "running"} /\ Keys(LoadCachedOperations(operations_file)) # {})
    => /\ tbank.pc = "running"
       /\ all_operations.set
       /\ Keys(LoadCachedOperations(operations_file)) \subseteq Keys(all_operations.ops)

(***************************************************************************)
(* The cache engine statement by statement: the ingest of the operations   *)
(* watcher's thread beside a get_operations call of the main thread.       *)
(***************************************************************************)
\* lines 247-255: the payload list of a body, or the exception raised on
\* the way to it.
PayloadOf(body) ==
    LET plain == IF IsGzip(body) THEN Decompress(body) ELSE body
    IN  IF plain.gz > 0 THEN [exc |-> "UnicodeDecodeError", ops |-> <<>>]
        ELSE IF plain.text.kind = "garbage" THEN [exc |-> "JSONDecodeError", ops |-> <<>>]
        ELSE IF plain.text.kind = "array" THEN [exc |-> "AttributeError", ops |-> <<>>]
        ELSE [exc |-> "none", ops |-> plain.text.payload]

\* tbank.py line 335, cached_ops = self.all_operations: the dict the
\* attribute names.  existing_operations of an ingest under way is another
\* dict (line 242 builds it anew) until line 263 assigns it.
VisibleInPlace(mem, ingest) ==
    IF ingest.pc \in {"merging", "opened"} THEN MemOf(ingest.existing) ELSE mem
Visible(mem, ingest) == mem

\* lines 182-185 after an ingest that has ended with exc: the request log is
\* cleared, the thread sleeps and turns to its next wait.
EndIngest(exc) ==
    /\ tbank' = [tbank EXCEPT !.ingest = NoIngest]
    /\ opsWatcher' = AfterCycle("none")
    /\ request' = <<>>
    /\ ev' = [kind |-> "ingest", exc |-> exc]

\* lines 175-176 and 242: the headers of the request are kept and the
\* cache file is loaded.
IngestLoad ==
    /\ opsWatcher = "handling"
    /\ tbank.ingest.pc = "idle"
    /\ headers' = request[1].headers
    /\ tbank' = [tbank EXCEPT !.ingest =
                    [pc |-> "loaded", existing |-> LoadCachedOperations(operations_file),
                     pending |-> <<>>, before |-> all_operations,
                     after |-> SaveNewOperationsToCacheFile(operations_file, all_operations,
                                                            request[1].body).mem]]
    /\ ev' = [kind |-> "load"]
    /\ UNCHANGED <<operations_file, all_operations, opsWatcher, request, prev, scenario>>
    /\ UNCHANGED <<session_file, sberVars>>

\* lines 247-255: the body is decoded and parsed; an exception is caught at
\* line 265.
IngestParse ==
    /\ tbank.ingest.pc = "loaded"
    /\ LET p == PayloadOf(request[1].body)
       IN  IF p.exc # "none"
           THEN EndIngest(p.exc)
           ELSE /\ tbank' = [tbank EXCEPT !.ingest.pc = "merging", !.ingest.pending = p.ops]
                /\ ev' = [kind |-> "parse"]
                /\ UNCHANGED <<opsWatcher, request>>
    /\ UNCHANGED <<operations_file, all_operations, headers, prev, scenario>>
    /\ UNCHANGED <<session_file, sberVars>>

\* lines 257-260: one turn of the merge loop.
IngestMergeOne ==
    /\ tbank.ingest.pc = "merging"
    /\ tbank.ingest.pending # <<>>
    /\ LET op == Head(tbank.ingest.pending)
       IN  IF ~op.isdict
           THEN EndIngest("AttributeError")
           ELSE /\ tbank' = [tbank EXCEPT
                                !.ingest.existing =
                                    IF Truthy(op.id) THEN DictSet(@, op.id, op) ELSE @,
                                !.ingest.pending = Tail(@)]
                /\ ev' = [kind |-> "merge"]
                /\ UNCHANGED <<opsWatcher, request>>
    /\ UNCHANGED <<operations_file, all_operations, headers, prev, scenario>>
    /\ UNCHANGED <<session_file, sberVars>>

\* line 262: open(self.operations_file, "w") leaves a file of no content,
\* which __load_cached_operations reads as {}; or it raises OSError.
IngestOpen ==
    /\ tbank.ingest.pc = "merging"
    /\ tbank.ingest.pending = <<>>
    /\ \/ /\ operations_file' = FileOf(<<>>)
          /\ tbank' = [tbank EXCEPT !.ingest.pc = "opened"]
          /\ ev' = [kind |-> "open"]
          /\ UNCHANGED <<opsWatcher, request>>
       \/ /\ EndIngest("OSError")
          /\ UNCHANGED operations_file
    /\ UNCHANGED <<all_operations, headers, prev, scenario>>
    /\ UNCHANGED <<session_file, sberVars>>

\* line 263: self.all_operations = existing_operations
IngestAssign ==
    /\ tbank.ingest.pc = "opened"
    /\ all_operations' = MemOf(tbank.ingest.existing)
    /\ tbank' = [tbank EXCEPT !.ingest.pc = "assigned"]
    /\ ev' = [kind |-> "assign"]
    /\ UNCHANGED <<operations_file, headers, opsWatcher, request, prev, scenario>>
    /\ UNCHANGED <<session_file, sberVars>>

\* line 264: json.dump writes the whole dict, or the write raises OSError
\* midway (caught at line 265) and leaves a text that
\* __load_cached_operations cannot parse and reads as {}.
IngestDump ==
    /\ tbank.ingest.pc = "assigned"
    /\ \/ /\ operations_file' = FileOf(tbank.ingest.existing)
          /\ EndIngest("none")
       \/ /\ operations_file' = FileOf(<<>>)
          /\ EndIngest("OSError")
    /\ UNCHANGED <<all_operations, headers, prev, scenario>>
    /\ UNCHANGED <<session_file, sberVars>>

\* get_operations, line 335.
QueryRead ==
    /\ tbank.query.pc = "idle"
    /\ tbank' = [tbank EXCEPT !.query = [pc |-> "read",
                                         cached_ops |-> Visible(all_operations, tbank.ingest)]]
    /\ ev' = [kind |-> "read"]
    /\ UNCHANGED <<operations_file, all_operations, headers, opsWatcher, request, prev, scenario>>
    /\ UNCHANGED <<session_file, sberVars>>

\* The filters of the queries of this specification.
StepFilters ==
    {TBankOperationsFilter(Digits(120), Digits(200), "dict", 0),
     TBankOperationsFilter(DefaultDateFrom, NoDate, "DataFrame", 250)}

\* get_operations, lines 337-349.
QueryFilter ==
    /\ tbank.query.pc = "read"
    /\ \E f \in StepFilters :
          ev' = [kind |-> "query", filter |-> f, out |-> GetOperations(tbank.query.cached_ops, f)]
    /\ tbank' = [tbank EXCEPT !.query = NoQuery]
    /\ UNCHANGED <<operations_file, all_operations, headers, opsWatcher, request, prev, scenario>>
    /\ UNCHANGED <<session_file, sberVars>>

\* The response bodies of this specification.
StepBodies ==
    {ScenarioFirst, ScenarioSecond, Garbage, Gzip(Single(Op("B", <<200>>))),
     [gz |-> 0, text |-> [kind |-> "obj", payload |-> <<Op("A", <<150>>), Scalar>>]]}

NextCacheSteps ==
    \/ WaitTimesOut
    \/ RequestArrives(StepBodies)
    \/ IngestLoad
    \/ IngestParse
    \/ IngestMergeOne
    \/ IngestOpen
    \/ IngestAssign
    \/ IngestDump
    \/ QueryRead
    \/ QueryFilter

SpecCacheSteps == Init /\ [][NextCacheSteps]_vars

\* C23: a get_operations call that reads the cache while an ingest is under
\* way reads the cache as it was before that ingest or as that ingest
\* leaves it, and with no ingest under way the cache as it is; it never
\* reads a dict that holds a part of the payload.
C23_Step ==
    (tbank.query.pc = "idle" /\ tbank'.query.pc = "read")
    => IF tbank.ingest.pc = "idle"
       THEN tbank'.query.cached_ops = all_operations
       ELSE tbank'.query.cached_ops \in {tbank.ingest.before, tbank.ingest.after}
C23_QueryReadsWholeCache == [][C23_Step]_vars

\* C23: a query has read the cache while the merge loop of an ingest has
\* merged one entry of a payload and not yet the next.
C23_Witness ==
    /\ tbank.query.pc = "read"
    /\ tbank.ingest.pc = "merging"
    /\ tbank.ingest.pending # <<>>
    /\ tbank.ingest.existing # LoadCachedOperations(operations_file)

\* C24 as stated: in every state, a failed or unfinished write of the cache
\* file included, every record of the cache in memory is in the cache file.
C24_MemoryIsInFile ==
    all_operations.set
    => \A i \in DOMAIN all_operations.ops :
          \E j \in DOMAIN LoadCachedOperations(operations_file) :
             LoadCachedOperations(operations_file)[j] = all_operations.ops[i]

(***************************************************************************)
(* The threads of a running SberBankApiClient beside a get_operations call *)
(* of the main thread: the request log of the driver (sber.buffer), and    *)
(* who is inside a call that drives the browser.                           *)
(***************************************************************************)
MaxBuffer == 2

\* The requests the browser sends while the client runs, as the waits read
\* them: to WARMUP_URL or to OPERATIONS_URL, the latter with its headers.
SberRequests ==
    {[kind |-> "warmup", headers |-> "h1"]}
        \cup {[kind |-> "listing", headers |-> h] : h \in Headers}

\* driver.wait_for_request(pattern): the first request of the log that
\* matches, <<>> when none does.
RECURSIVE FirstMatch(_, _)
FirstMatch(buffer, kind) ==
    IF buffer = <<>> THEN <<>>
    ELSE IF Head(buffer).kind = kind THEN <<Head(buffer)>>
    ELSE FirstMatch(Tail(buffer), kind)

KeepRequests(buffer) == buffer
\* sber.py line 121, tbank.py lines 156 and 182: self.driver.requests.clear()
ClearRequests(buffer) == <<>>

\* A SberBankApiClient as its constructor leaves it (lines 66-74): logged
\* in, the session persisted, the two threads started.
InitSberThreads ==
    /\ operations_file = NoFile
    /\ all_operations = Unset
    /\ headers = "None"
    /\ opsWatcher = "off"
    /\ request = <<>>
    /\ ev = [kind |-> "init"]
    /\ prev = NoPrev
    /\ scenario = "empty"
    /\ session_file = NoSession
    /\ tbank = TBankOff
    /\ \E front \in Nodes, back \in Nodes, h \in Headers, c \in Cookies, ls \in LocalStorage :
          LET inst == [SberOff EXCEPT !.pc = "running", !.main = "seen", !.meta = "seen",
                                      !.front = <<front>>, !.back = <<back>>,
                                      !.nodeHeaders = <<h>>,
                                      !.endpoints = <<InitializeEndpoints(front, back)>>,
                                      !.wrote = TRUE, !.sim = "starting", !.live = "waiting"]
              r == SberConserveSession(inst, c, ls)
          IN  /\ sber = [inst EXCEPT !.cookies = r.cookies, !.headers = r.headers]
              /\ sber_file = r.file

\* The browser sends a request and selenium-wire appends it to the log.
SberTraffic ==
    /\ sber.pc = "running"
    /\ Len(sber.buffer) < MaxBuffer
    /\ \E r \in SberRequests :
          sber' = [sber EXCEPT !.buffer = Append(@, r), !.arrived = @ + 1]
    /\ UNCHANGED <<cacheVars, tbankVars, sber_file>>

\* The simulator inside a call that drives the browser: driver.get (line
\* 86), execute_script and refresh (lines 91-93), and the get_cookies and
\* execute_script calls of __conserve_session (lines 200-210).
SimulatorDrives(inst) == inst.sim \in {"opening", "scrolling", "conserving"}

\* line 86: driver.get is entered.
SberSimEntersOpen ==
    /\ sber.sim = "starting"
    /\ sber' = [sber EXCEPT !.sim = "opening"]
    /\ UNCHANGED <<cacheVars, tbankVars, sber_file>>

\* line 86: driver.get returns, or raises and ends the thread.
SberSimLeavesOpen ==
    /\ sber.sim = "opening"
    /\ \/ sber' = [sber EXCEPT !.sim = "ready"]
       \/ sber' = [sber EXCEPT !.sim = "dead"]
    /\ UNCHANGED <<cacheVars, tbankVars, sber_file>>

\* lines 88-93: the scroll script is entered.
SberSimEntersScroll ==
    /\ sber.sim = "ready"
    /\ sber' = [sber EXCEPT !.sim = "scrolling"]
    /\ UNCHANGED <<cacheVars, tbankVars, sber_file>>

\* lines 91-93 and 103-106: the scroll and the refresh return, or one of
\* them raises, which line 103 catches.
SberSimLeavesScroll ==
    /\ sber.sim = "scrolling"
    /\ \/ sber' = [sber EXCEPT !.sim = "awaiting"]
       \/ sber' = [sber EXCEPT !.sim = "sleeping"]
    /\ UNCHANGED <<cacheVars, tbankVars, sber_file>>

\* lines 95-100 and 103-106: the wait returns the first listing request of
\* the log, whose headers are kept, and __conserve_session is entered; or
\* no listing request is in the log in time and TimeoutException is caught.
SberSimAwaits ==
    /\ sber.sim = "awaiting"
    /\ LET found == FirstMatch(sber.buffer, "listing")
       IN  IF found = <<>>
           THEN sber' = [sber EXCEPT !.sim = "sleeping"]
           ELSE sber' = [sber EXCEPT !.sim = "conserving", !.headers = <<found[1].headers>>,
                                     !.nodeHeaders = <<found[1].headers>>]
    /\ UNCHANGED <<cacheVars, tbankVars, sber_file>>

\* lines 100-106: __conserve_session returns, or raises (caught at line
\* 103) before it has written.
SberSimLeavesConserve ==
    /\ sber.sim = "conserving"
    /\ \/ \E c \in Cookies, ls \in LocalStorage :
             LET r == SberConserveSession(sber, c, ls)
             IN  /\ sber' = [sber EXCEPT !.sim = "sleeping", !.cookies = r.cookies,
                                         !.headers = r.headers]
                 /\ sber_file' = IF r.wrote THEN r.file ELSE sber_file
       \/ /\ sber' = [sber EXCEPT !.sim = "sleeping"]
          /\ UNCHANGED sber_file
    /\ UNCHANGED <<cacheVars, tbankVars>>

\* line 106: the sleep ends and the loop turns.
SberSimWakes ==
    /\ sber.sim = "sleeping"
    /\ sber' = [sber EXCEPT !.sim = "ready"]
    /\ UNCHANGED <<cacheVars, tbankVars, sber_file>>

\* _watch_warmup_requests, lines 114-118 and 123-132: the wait returns the
\* first warm-up request of the log, or none is in the log in time and
\* TimeoutException is caught.
SberLiveWaits ==
    /\ sber.live = "waiting"
    /\ sber.pc = "running"
    /\ IF FirstMatch(sber.buffer, "warmup") = <<>>
       THEN sber' = AfterWarmupTimeout(sber)
       ELSE sber' = [sber EXCEPT !.live = "detected", !.lastLive = "signal"]
    /\ UNCHANGED <<cacheVars, tbankVars, sber_file>>

\* lines 119-122: the request log is cleared, the thread sleeps and turns
\* to its next wait.
SberLiveClears ==
    /\ sber.live = "detected"
    /\ sber' = [sber EXCEPT !.live = "waiting", !.buffer = ClearRequests(@), !.arrived = 0]
    /\ UNCHANGED <<cacheVars, tbankVars, sber_file>>

\* get_operations, lines 254-278: execute_async_script is entered.
SberFetchEnters ==
    /\ sber.pc = "running"
    /\ sber.query = "idle"
    /\ sber' = [sber EXCEPT !.query = "fetching"]
    /\ UNCHANGED <<cacheVars, tbankVars, sber_file>>

\* The transports of the queries of this specification.
ThreadTransports ==
    {t \in Transports : t.kind = "network_error" \/ (t.status = StatusOk /\ t.body = "ops")}

\* lines 278-291: execute_async_script returns and the call ends.
SberFetchLeaves ==
    /\ sber.query = "fetching"
    /\ \E f \in SberQueryFilters, t \in ThreadTransports :
          ev' = [kind |-> "squery", via |-> "browser", transport |-> t,
                 body |-> SberToJson(f), out |-> SberGetOperations(f, t)]
    /\ sber' = [sber EXCEPT !.query = "idle"]
    /\ UNCHANGED <<operations_file, all_operations, headers, opsWatcher, request, prev, scenario>>
    /\ UNCHANGED <<tbankVars, sber_file>>

NextSberThreads ==
    \/ SberTraffic
    \/ SberSimEntersOpen
    \/ SberSimLeavesOpen
    \/ SberSimEntersScroll
    \/ SberSimLeavesScroll
    \/ SberSimAwaits
    \/ SberSimLeavesConserve
    \/ SberSimWakes
    \/ SberLiveWaits
    \/ SberLiveClears
    \/ SberFetchEnters
    \/ SberFetchLeaves

SpecSberThreads == InitSberThreads /\ [][NextSberThreads]_vars

\* C26: when a cycle of the warm-up watcher that has detected its signal
\* turns to its next wait, the request log is empty; and the log never
\* holds more requests than have arrived since the watcher last cleared it.
C26_Step ==
    /\ (sber.live = "detected" /\ sber'.live = "waiting") => sber'.buffer = <<>>
    /\ Len(sber'.buffer) <= sber'.arrived
C27_OneActorDrivesBrowser == ~(SimulatorDrives(sber) /\ sber.query = "fetching")

(***************************************************************************)
(* The three threads of a running TBankApiClient over the one request log  *)
(* of the driver (tbank.buffer); tbank.ingested are the response bodies    *)
(* the operations watcher has handed to the ingest.                        *)
(***************************************************************************)
\* The requests the browser sends while the client runs, as the waits read
\* them: to SESSION_STATUS_ENDPOINT, or to the operations endpoint with a
\* response body.
TBankRequests ==
    {[kind |-> "status", headers |-> "h1", body |-> Garbage],
     [kind |-> "listing", headers |-> "h1", body |-> Single(Op("A", <<100>>))],
     [kind |-> "listing", headers |-> "h2", body |-> Single(Op("B", <<200>>))]}

\* The browser sends a request and selenium-wire appends it to the log.
TBankTraffic ==
    /\ tbank.pc = "running"
    /\ Len(tbank.buffer) < MaxBuffer
    /\ \E r \in TBankRequests : tbank' = [tbank EXCEPT !.buffer = Append(@, r)]
    /\ ev' = [kind |-> "traffic"]
    /\ UNCHANGED <<operations_file, all_operations, headers, opsWatcher, request, prev,
                   scenario, session_file, sberVars>>

\* _watch_get_operations_requests, lines 171-185, one turn: the wait raises
\* TimeoutException when no listing request is in the log in time; else it
\* returns the first one, whose headers are kept and whose response body is
\* ingested, and the log is cleared.
TBankOpsTurn ==
    /\ opsWatcher = "waiting"
    /\ LET found == FirstMatch(tbank.buffer, "listing")
       IN  IF found = <<>>
           THEN /\ opsWatcher' = AfterCycle("TimeoutException")
                /\ ev' = [kind |-> "timeout"]
                /\ UNCHANGED <<operations_file, all_operations, headers, prev, scenario, tbank>>
           ELSE LET req == found[1]
                    r == SaveNewOperationsToCacheFile(operations_file, all_operations, req.body)
                IN  /\ headers' = req.headers
                    /\ operations_file' = r.file
                    /\ all_operations' = r.mem
                    /\ opsWatcher' = AfterCycle(IF r.escaped THEN r.exc ELSE "none")
                    /\ ev' = IngestEvent(req.body, r, operations_file)
                    /\ prev' = NoPrev
                    /\ scenario' = AfterIngest(scenario, req.body)
                    /\ tbank' = [tbank EXCEPT !.buffer = ClearRequests(@),
                                              !.ingested = @ \cup {req.body}]
    /\ UNCHANGED <<request, session_file, sberVars>>

\* _watch_session_status_requests, lines 145-151 and 158-167: the wait
\* returns the first status request of the log, whose headers line 151
\* keeps, or none is in the log in time and TimeoutException is logged.
TBankStatusWaits ==
    /\ tbank.live = "waiting"
    /\ LET found == FirstMatch(tbank.buffer, "status")
       IN  IF found = <<>>
           THEN /\ tbank' = [tbank EXCEPT !.lastLive = "timeout"]
                /\ UNCHANGED headers
           ELSE /\ headers' = found[1].headers
                /\ tbank' = [tbank EXCEPT !.live = "detected", !.lastLive = "signal"]
    /\ ev' = [kind |-> "status"]
    /\ UNCHANGED <<operations_file, all_operations, opsWatcher, request, prev, scenario,
                   session_file, sberVars>>

\* lines 153-157: the request log is cleared, the thread sleeps and turns
\* to its next wait.
TBankStatusClears ==
    /\ tbank.live = "detected"
    /\ tbank' = [tbank EXCEPT !.live = "waiting", !.buffer = ClearRequests(@)]
    /\ ev' = [kind |-> "status"]
    /\ UNCHANGED <<operations_file, all_operations, headers, opsWatcher, request, prev,
                   scenario, session_file, sberVars>>

\* _simulate_human_activity, lines 122-131 and 135-138: the wait returns
\* the first listing request of the log, whose headers line 130 keeps, or
\* none is in the log in time and TimeoutException is caught.
TBankSimAwaits ==
    /\ tbank.sim = "idle"
    /\ LET found == FirstMatch(tbank.buffer, "listing")
       IN  IF found = <<>>
           THEN UNCHANGED <<tbank, headers>>
           ELSE /\ headers' = found[1].headers
                /\ tbank' = [tbank EXCEPT !.sim = "captured",
                                          !.captured = <<found[1].headers>>]
    /\ ev' = [kind |-> "simulator"]
    /\ UNCHANGED <<operations_file, all_operations, opsWatcher, request, prev, scenario,
                   session_file, sberVars>>

NextTBankThreads ==
    \/ TBankTraffic
    \/ TBankOpsTurn
    \/ TBankStatusWaits
    \/ TBankStatusClears
    \/ TBankSimAwaits
    \/ TBankSimulatorConserve

SpecTBankThreads == InitAlive /\ [][NextTBankThreads]_vars

\* C28 as stated: no clear of the request log, by the status watcher or by
\* the operations watcher, removes a listing response that the operations
\* watcher has not handed to the ingest: every listing request that leaves
\* the log has had its response body ingested.
C28_Step ==
    \A i \in DOMAIN tbank.buffer :
       (/\ tbank.buffer[i].kind = "listing"
        /\ ~\E j \in DOMAIN tbank'.buffer : tbank'.buffer[j] = tbank.buffer[i])
       => tbank.buffer[i].body \in tbank'.ingested
====
